---- MODULE Spec2Model ----
(***************************************************************************)
(* Model of rss_bot.py: a single-threaded job that loads an OPML feed list *)
(* from S3, walks its outline nodes, fetches each feed, keeps yesterday's  *)
(* articles, builds an HTML report and mails it.                           *)
(*                                                                         *)
(* Python strings are modelled as sequences of chunks (TLA+ strings), so   *)
(* that + is \o and an f-string is the tuple of its literal and            *)
(* interpolated parts.  Python values that may be None are records         *)
(* [tag, s].  A raised exception is a record [type, where].                *)
(***************************************************************************)
EXTENDS Integers, Sequences, FiniteSets, TLC

VARIABLES
    pc,         \* position of main(): "load","loop","finalize","send","done","crashed"
                \* (or "date"/"feed" in the function-level specifications)
    today,      \* date.today(), as a day number (a run does not cross midnight)
    doc,        \* the OPML document stored in S3 (a forest of outline elements)
    s3Fault,    \* what the S3 read / XML parse did: "unset","none","ClientError",...
    loadRet,    \* how load_feeds ended: "unset","tree","None","raised"
    nodes,      \* tree.findall(".//outline")
    idx,        \* index (1-based) of the node the for loop handles next
    report,     \* main's report string
    errors,     \* main's errors string
    fetched,    \* feedparser.parse calls so far: sequence of [node, url]
    log,        \* per handled node: [node, fault, ret] (fault = what the fetch did)
    lastFeed,   \* what feedparser.parse produces for the get_articles call explored alone
    lastRet,    \* what that get_articles call returned
    exc,        \* the exception that ended the run, NoExc if none
    sent,       \* send_email invocations: sequence of [subject, content, type]
    smtpFault,  \* the transport step that failed in send_email, "unset" before
    response,   \* send_email's return value
    entry,      \* the entry handed to published_date (function-level specification)
    pdResult    \* what published_date returned for it

vars == << pc, today, doc, s3Fault, loadRet, nodes, idx, report, errors, fetched,
           log, lastFeed, lastRet, exc, sent, smtpFault, response, entry, pdResult >>

-----------------------------------------------------------------------------
(* Bounds *)

MaxDay == 2          \* days are 0..MaxDay
MaxNodes == 2        \* outline elements in the document
MaxRunEntries == 2   \* entries per feed in whole-run behaviours
MaxEntries == 3      \* entries per feed when get_articles is explored alone

Days == 0..MaxDay
Tods == {0, 1}       \* time of day of a datetime (morning / evening)

-----------------------------------------------------------------------------
(* Python values *)

None == [tag |-> "None", s |-> << >>]
Str(s) == [tag |-> "str", s |-> s]

NoExc == [type |-> "", where |-> ""]
Raise(t, w) == [type |-> t, where |-> w]

\* dict.get / entry[k] on a key that is not there
NoAttr == "<absent>"
\* how an f-string renders a value
Fmt(x) == IF x = NoAttr THEN "None" ELSE x

-----------------------------------------------------------------------------
(* Feed entries and published_date *)

DateKeys == << "published_parsed", "updated_parsed", "pubDate", "updated", "published" >>
DateKeySet == { DateKeys[i] : i \in 1..Len(DateKeys) }

\* values a date field of an entry can hold
FAbsent == [kind |-> "absent", day |-> 0, tod |-> 0]
FStruct(d, t) == [kind |-> "struct", day |-> d, tod |-> t]   \* time.struct_time
FRaw(d, t) == [kind |-> "str", day |-> d, tod |-> t]         \* string dateutil can parse
FBad == [kind |-> "bad", day |-> 0, tod |-> 0]               \* string dateutil cannot parse

PdNone == [kind |-> "None", day |-> 0, tod |-> 0]
DateTime(d, t) == [kind |-> "datetime", day |-> d, tod |-> t]

\* dateutil.parser.parse: accepts a string (or stream) only; anything else, and a
\* string that is no date, raises.
ParserParse(v) ==
    IF v.kind = "str"
    THEN [ok |-> TRUE, dt |-> DateTime(v.day, v.tod)]
    ELSE [ok |-> FALSE, dt |-> PdNone]

RECURSIVE PublishedDateFrom(_, _)
PublishedDateFrom(e, k) ==
    IF k > Len(DateKeys) THEN PdNone
    ELSE LET v == e.dates[DateKeys[k]]
         IN  IF v.kind = "absent" THEN PublishedDateFrom(e, k + 1)      \* KeyError
             ELSE IF ParserParse(v).ok THEN ParserParse(v).dt
             ELSE PublishedDateFrom(e, k + 1)                           \* parse raised

published_date(e) == PublishedDateFrom(e, 1)

\* datetime.date()
DateOf(dt) == dt.day


-----------------------------------------------------------------------------
(* get_articles *)

NotFoundStatus == 404

UlOpen == << "<ul>" >>
UlClose == << "</ul>" >>
Li(article_url, title) == << "<li><a href='", Fmt(article_url), "'>", Fmt(title), "</a></li>" >>

\* ArticlesLoop with the date test written >= (today's posts slip in)
RECURSIVE ArticlesLoopLate(_, _, _, _, _)
ArticlesLoopLate(entries, k, articles, articles_count, now) ==
    IF k > Len(entries)
    THEN [exc |-> NoExc, articles |-> articles, count |-> articles_count]
    ELSE LET e == entries[k]
             pub_date == published_date(e)
             yesterday == now - 1
         IN  IF e.title = NoAttr \/ e.link = NoAttr
             THEN [exc |-> Raise("KeyError", "get_articles"),
                   articles |-> articles, count |-> articles_count]
             ELSE IF pub_date = PdNone
             THEN [exc |-> Raise("AttributeError", "get_articles"),
                   articles |-> articles, count |-> articles_count]
             ELSE IF DateOf(pub_date) >= yesterday
             THEN ArticlesLoopLate(entries, k + 1, articles \o Li(e.link, e.title),
                                   articles_count + 1, now)
             ELSE ArticlesLoopLate(entries, k + 1, articles, articles_count, now)

\* the body of the for loop over feed["entries"], from entry k on; articles and
\* articles_count are the accumulators.  Uncaught exceptions end the loop.
RECURSIVE ArticlesLoop(_, _, _, _, _)
ArticlesLoop(entries, k, articles, articles_count, now) ==
    IF k > Len(entries)
    THEN [exc |-> NoExc, articles |-> articles, count |-> articles_count]
    ELSE LET e == entries[k]
             pub_date == published_date(e)
             yesterday == now - 1
         IN  IF e.title = NoAttr \/ e.link = NoAttr
             THEN [exc |-> Raise("KeyError", "get_articles"),
                   articles |-> articles, count |-> articles_count]
             ELSE IF pub_date = PdNone
             THEN [exc |-> Raise("AttributeError", "get_articles"),
                   articles |-> articles, count |-> articles_count]
             ELSE IF DateOf(pub_date) = yesterday
             THEN ArticlesLoop(entries, k + 1, articles \o Li(e.link, e.title),
                               articles_count + 1, now)
             ELSE ArticlesLoop(entries, k + 1, articles, articles_count, now)

\* feed: what feedparser.parse did, [raises, status, entries]
get_articles(feed, now) ==
    IF feed.raises THEN [exc |-> NoExc, ret |-> None]
    ELSE IF feed.status = NotFoundStatus THEN [exc |-> NoExc, ret |-> Str(<< "Not Found" >>)]
    ELSE LET r == ArticlesLoop(feed.entries, 1, UlOpen, 0, now)
         IN  IF r.exc # NoExc THEN [exc |-> r.exc, ret |-> None]
             ELSE IF r.count > 0 THEN [exc |-> NoExc, ret |-> Str(r.articles \o UlClose)]
             ELSE [exc |-> NoExc, ret |-> None]

-----------------------------------------------------------------------------
(* process_outline *)

FolderHeader(title) == << "<hr><h1>", Fmt(title), "</h1>" >>
BlogHeader(title) == << "<h2>", Fmt(title), "</h2>" >>

IsFolder(node) == node.type = "folder"

\* process_outline without its folder branch: a folder is fetched like a feed
process_outlineNoFolder(node, feed, now) ==
    LET blog == BlogHeader(node.title)
        got == get_articles(feed, now)
        articles == got.ret
    IN  IF got.exc # NoExc THEN [exc |-> got.exc, ret |-> None, fetch |-> TRUE]
        ELSE IF articles # None
        THEN [exc |-> NoExc, ret |-> Str(blog \o articles.s), fetch |-> TRUE]
        ELSE [exc |-> NoExc, ret |-> None, fetch |-> TRUE]

\* [exc, ret, fetch]: fetch tells whether get_articles (hence feedparser.parse) ran
process_outline(node, feed, now) ==
    IF IsFolder(node)
    THEN [exc |-> NoExc, ret |-> Str(FolderHeader(node.title)), fetch |-> FALSE]
    ELSE LET blog == BlogHeader(node.title)
             got == get_articles(feed, now)
             articles == got.ret
         IN  IF got.exc # NoExc THEN [exc |-> got.exc, ret |-> None, fetch |-> TRUE]
             ELSE IF articles = Str(<< "Not found" >>)
             THEN [exc |-> NoExc, ret |-> Str(<< "Not Found" >>), fetch |-> TRUE]
             ELSE IF articles # None
             THEN [exc |-> NoExc, ret |-> Str(blog \o articles.s), fetch |-> TRUE]
             ELSE [exc |-> NoExc, ret |-> None, fetch |-> TRUE]

-----------------------------------------------------------------------------
(* The OPML document and tree.findall(".//outline") *)

\* document order: every outline element, then its descendants, at any depth
\* (depth is kept with the element for reference; the program does not read it)
RECURSIVE FindAllAt(_, _)
FindAllAt(forest, depth) ==
    IF forest = << >> THEN << >>
    ELSE LET o == Head(forest)
         IN  << [type |-> o.type, title |-> o.title, xmlUrl |-> o.xmlUrl, depth |-> depth] >>
             \o FindAllAt(o.children, depth + 1) \o FindAllAt(Tail(forest), depth)

FindAll(forest) == FindAllAt(forest, 1)


\* the forests of outline elements with exactly n elements in all
RECURSIVE ForestsOf(_)
ForestsOf(n) ==
    IF n = 0 THEN { << >> }
    ELSE UNION { { << [type |-> a.type, title |-> a.title, xmlUrl |-> a.xmlUrl,
                       children |-> kids] >> \o rest :
                   a \in { [type |-> "folder", title |-> "Tech", xmlUrl |-> NoAttr],
                           [type |-> "rss", title |-> "BlogX", xmlUrl |-> "https://x.example/rss"],
                           [type |-> NoAttr, title |-> "BlogY", xmlUrl |-> "https://y.example/atom"] },
                   kids \in ForestsOf(k), rest \in ForestsOf(n - 1 - k) } : k \in 0..(n - 1) }

Docs == UNION { ForestsOf(n) : n \in 0..MaxNodes }

-----------------------------------------------------------------------------
(* What the network can answer *)

DatesOf(pp, up, pd, u, p) ==
    [k \in DateKeySet |->
        CASE k = "published_parsed" -> pp
          [] k = "updated_parsed" -> up
          [] k = "pubDate" -> pd
          [] k = "updated" -> u
          [] k = "published" -> p]

Entry(t, l, ds) == [title |-> t, link |-> l, dates |-> ds]

\* an RSS item as feedparser delivers it: the raw string and its struct_time
RssDates(d, t) == DatesOf(FStruct(d, t), FAbsent, FAbsent, FAbsent, FRaw(d, t))
NoDates == DatesOf(FAbsent, FAbsent, FAbsent, FAbsent, FAbsent)
\* a date feedparser understood and dateutil does not
ForeignDates(d) == DatesOf(FStruct(d, 0), FAbsent, FAbsent, FAbsent, FBad)

PostLink == "https://x.example/a"

DefectiveEntries ==
    { Entry(NoAttr, PostLink, RssDates(MaxDay - 1, 0)),
      Entry("Post A", NoAttr, RssDates(MaxDay - 1, 0)),
      Entry("Post A", PostLink, NoDates),
      Entry("Post A", PostLink, ForeignDates(MaxDay - 1)) }

\* whole-run behaviours: two dated posts and two defective entries
RunEntries ==
    { Entry("Post A", PostLink, RssDates(MaxDay - 1, 1)),
      Entry("Post B", "https://x.example/b", RssDates(MaxDay - 2, 1)),
      Entry(NoAttr, PostLink, RssDates(MaxDay - 1, 0)),
      Entry("Post A", PostLink, ForeignDates(MaxDay - 1)) }

FeedEntries ==
    { Entry(t, PostLink, RssDates(d, h)) : t \in {"Post A", "Post B"}, d \in Days, h \in Tods }
    \cup DefectiveEntries

SeqsUpTo(S, n) == UNION { [1..m -> S] : m \in 0..n }

FetchRaises == [raises |-> TRUE, status |-> 200, entries |-> << >>]
FetchNotFound == [raises |-> FALSE, status |-> NotFoundStatus, entries |-> << >>]
Parsed(es) == [raises |-> FALSE, status |-> 200, entries |-> es]
NoFetch == [raises |-> FALSE, status |-> 0, entries |-> << >>]

RunFeeds == {FetchRaises, FetchNotFound} \cup { Parsed(es) : es \in SeqsUpTo(RunEntries, MaxRunEntries) }
AllFeeds == {FetchRaises, FetchNotFound} \cup { Parsed(es) : es \in SeqsUpTo(FeedEntries, MaxEntries) }

\* entries as published_date can meet them: a structured time only beside its raw string
FieldStructs == {FAbsent} \cup { FStruct(d, 0) : d \in Days }
FieldRaws == {FAbsent, FBad} \cup { FRaw(d, 0) : d \in Days }
DateEntries ==
    { e \in { Entry("Post A", PostLink, DatesOf(pp, up, pd, u, p)) :
                pp \in FieldStructs, up \in FieldStructs, pd \in FieldRaws,
                u \in FieldRaws, p \in FieldRaws } :
        /\ e.dates["published_parsed"] # FAbsent => e.dates["published"] # FAbsent
        /\ e.dates["updated_parsed"] # FAbsent => e.dates["updated"] # FAbsent }

-----------------------------------------------------------------------------
(* load_feeds *)

\* ClientError: S3 answered with an error; BotoCoreError: the request never got an
\* answer (no credentials, endpoint unreachable), which is no ClientError;
\* ParseError: et.fromstring on a body that is not well-formed XML
S3Faults == {"none", "ClientError", "BotoCoreError", "ParseError"}

\* "None": returned None; "raised": an exception left load_feeds; "tree": the document
load_feeds(fault) ==
    CASE fault = "ClientError" -> [exc |-> NoExc, ret |-> "None"]
      [] fault = "BotoCoreError" -> [exc |-> Raise("BotoCoreError", "load_feeds"), ret |-> "raised"]
      [] fault = "ParseError" -> [exc |-> Raise("ParseError", "load_feeds"), ret |-> "raised"]
      [] OTHER -> [exc |-> NoExc, ret |-> "tree"]

-----------------------------------------------------------------------------
(* SmtpMailer.send_email *)

SentStatus == 201
FailedStatus == 400
NoResponse == [status_code |-> 0, details |-> "unset"]

\* the step of the transport that raises: smtplib.SMTP(...) connecting, one of the
\* three calls inside the try, or the QUIT sent when the with block is left
SmtpFaults == {"none", "connect", "starttls", "login", "sendmail", "quit"}

send_email(fault) ==
    CASE fault = "connect" -> [exc |-> Raise("OSError", "send_email"), ret |-> NoResponse]
      [] fault \in {"starttls", "login", "sendmail"} ->
            [exc |-> NoExc, ret |-> [status_code |-> FailedStatus, details |-> fault]]
      [] fault = "quit" ->
            [exc |-> Raise("SMTPResponseException", "send_email"), ret |-> NoResponse]
      [] OTHER -> [exc |-> NoExc, ret |-> [status_code |-> SentStatus, details |-> "email sent"]]

-----------------------------------------------------------------------------
(* main *)

ErrorsHeader == << "<hr><h1>Errors</h1>" >>
ErrorAnchor(url, title) == << "<a src='", Fmt(url), "'>", Fmt(title), "</a>" >>
Subject == "Today's new articles and videos."

\* one pass of the for loop once process_outline returned blog_articles
MainStep(rep, errs, outline, blog_articles) ==
    IF blog_articles = Str(<< "Not found" >>)
    THEN [report |-> rep, errors |-> errs \o ErrorAnchor(outline.xmlUrl, outline.title)]
    ELSE IF blog_articles # None
    THEN [report |-> rep \o blog_articles.s, errors |-> errs]
    ELSE [report |-> rep, errors |-> errs]

\* the for loop stopping one node early
LoopDoneEarly(i, ns) == i >= Len(ns)

\* the for loop is over once every node was handled
LoopDone(i, ns) == i > Len(ns)

FaultOf(node, feed) ==
    IF IsFolder(node) THEN "folder"
    ELSE IF feed.raises THEN "raised"
    ELSE IF feed.status = NotFoundStatus THEN "notfound"
    ELSE "parsed"

Idle ==
    /\ s3Fault = "unset" /\ loadRet = "unset" /\ nodes = << >> /\ idx = 1
    /\ report = << >> /\ errors = << >> /\ fetched = << >> /\ log = << >>
    /\ lastFeed = NoFetch /\ lastRet = None /\ exc = NoExc
    /\ sent = << >> /\ smtpFault = "unset" /\ response = NoResponse
    /\ pdResult = PdNone

Init ==
    /\ pc = "load"
    /\ today \in {MaxDay - 1, MaxDay}
    /\ doc \in Docs
    /\ entry = Entry("Post A", PostLink, NoDates)
    /\ Idle

Load ==
    /\ pc = "load"
    /\ \E fault \in S3Faults :
        LET r == load_feeds(fault)
        IN  /\ s3Fault' = fault
            /\ loadRet' = r.ret
            /\ IF r.exc # NoExc
               THEN /\ pc' = "crashed" /\ exc' = r.exc
                    /\ UNCHANGED << nodes, report, errors >>
               ELSE IF r.ret = "None"
               THEN \* the assert; with asserts stripped (-O), tree.findall on None
                    /\ pc' = "crashed"
                    /\ exc' \in { Raise("AssertionError", "main"), Raise("AttributeError", "main") }
                    /\ UNCHANGED << nodes, report, errors >>
               ELSE /\ pc' = "loop" /\ exc' = exc
                    /\ nodes' = FindAll(doc)
                    /\ report' = << >>
                    /\ errors' = ErrorsHeader
    /\ UNCHANGED << today, doc, idx, fetched, log, lastFeed, lastRet, sent, smtpFault,
                    response, entry, pdResult >>

ProcessNode ==
    /\ pc = "loop"
    /\ ~LoopDone(idx, nodes)
    /\ LET outline == nodes[idx]
       IN \E feed \in (IF IsFolder(outline) THEN {NoFetch} ELSE RunFeeds) :
            LET r == process_outline(outline, feed, today)
                m == MainStep(report, errors, outline, r.ret)
            IN  /\ fetched' = IF r.fetch
                              THEN Append(fetched, [node |-> idx, url |-> outline.xmlUrl])
                              ELSE fetched
                /\ IF r.exc # NoExc
                   THEN /\ pc' = "crashed" /\ exc' = r.exc
                        /\ UNCHANGED << report, errors, idx, log >>
                   ELSE /\ report' = m.report
                        /\ errors' = m.errors
                        /\ idx' = idx + 1
                        /\ log' = Append(log, [node |-> idx, fault |-> FaultOf(outline, feed),
                                               ret |-> r.ret])
                        /\ UNCHANGED << pc, exc >>
    /\ UNCHANGED << today, doc, s3Fault, loadRet, nodes, lastFeed, lastRet, sent, smtpFault,
                    response, entry, pdResult >>

\* report += errors
Finalize ==
    /\ pc = "loop"
    /\ LoopDone(idx, nodes)
    /\ report' = report \o errors
    /\ pc' = "send"
    /\ UNCHANGED << today, doc, s3Fault, loadRet, nodes, idx, errors, fetched, log,
                    lastFeed, lastRet, exc, sent, smtpFault, response, entry, pdResult >>

Send ==
    /\ pc = "send"
    /\ \E fault \in SmtpFaults :
        LET r == send_email(fault)
        IN  /\ sent' = Append(sent, [subject |-> Subject, content |-> report, type |-> "html"])
            /\ smtpFault' = fault
            /\ response' = r.ret
            /\ exc' = r.exc
            /\ pc' = IF r.exc # NoExc THEN "crashed" ELSE "done"
    /\ UNCHANGED << today, doc, s3Fault, loadRet, nodes, idx, report, errors, fetched, log,
                    lastFeed, lastRet, entry, pdResult >>

Next == Load \/ ProcessNode \/ Finalize \/ Send

Spec == Init /\ [][Next]_vars

-----------------------------------------------------------------------------
(* get_articles explored alone, over richer feeds *)

InitFeed ==
    /\ pc = "feed"
    /\ today \in 1..MaxDay
    /\ doc = << >>
    /\ entry = Entry("Post A", PostLink, NoDates)
    /\ s3Fault = "unset" /\ loadRet = "unset" /\ nodes = << >> /\ idx = 1
    /\ report = << >> /\ errors = << >> /\ fetched = << >> /\ log = << >>
    /\ lastFeed \in AllFeeds /\ lastRet = None /\ exc = NoExc
    /\ sent = << >> /\ smtpFault = "unset" /\ response = NoResponse
    /\ pdResult = PdNone

CallGetArticles ==
    /\ pc = "feed"
    /\ LET r == get_articles(lastFeed, today)
       IN  /\ lastRet' = r.ret
           /\ exc' = r.exc
           /\ pc' = IF r.exc # NoExc THEN "crashed" ELSE "done"
    /\ UNCHANGED << today, doc, s3Fault, loadRet, nodes, idx, report, errors, fetched, log,
                    lastFeed, sent, smtpFault, response, entry, pdResult >>

SpecFeed == InitFeed /\ [][CallGetArticles]_vars

-----------------------------------------------------------------------------
(* published_date explored alone, over all field combinations *)

InitDate ==
    /\ pc = "date"
    /\ today = 1
    /\ doc = << >>
    /\ entry \in DateEntries
    /\ Idle

CallPublishedDate ==
    /\ pc = "date"
    /\ pdResult' = published_date(entry)
    /\ pc' = "done"
    /\ UNCHANGED << today, doc, s3Fault, loadRet, nodes, idx, report, errors, fetched, log,
                    lastFeed, lastRet, exc, sent, smtpFault, response, entry >>

SpecDate == InitDate /\ [][CallPublishedDate]_vars

-----------------------------------------------------------------------------
(* Vocabulary of the properties *)

Contains(s, sub) ==
    \E i \in 0..(Len(s) - Len(sub)) : SubSeq(s, i + 1, i + Len(sub)) = sub

EndsWith(s, suffix) ==
    /\ Len(s) >= Len(suffix)
    /\ SubSeq(s, Len(s) - Len(suffix) + 1, Len(s)) = suffix

HasErrorsHeader(content) == \E i \in DOMAIN content : content[i] = ErrorsHeader[1]
ErrorsAt(content) ==
    CHOOSE i \in DOMAIN content :
        /\ content[i] = ErrorsHeader[1]
        /\ \A j \in 1..(i - 1) : content[j] # ErrorsHeader[1]
\* everything before the error header, and the error section from the header on
BodySection(content) ==
    IF HasErrorsHeader(content) THEN SubSeq(content, 1, ErrorsAt(content) - 1) ELSE content
ErrorSection(content) ==
    IF HasErrorsHeader(content) THEN SubSeq(content, ErrorsAt(content), Len(content)) ELSE << >>

FetchCount(i) == Cardinality({ k \in DOMAIN fetched : fetched[k].node = i })

OnlyOneTitled(n) == Cardinality({ i \in DOMAIN nodes : nodes[i].title = n.title }) = 1

\* what the handled nodes returned, joined in order
RECURSIVE ReturnedUpTo(_)
ReturnedUpTo(k) ==
    IF k = 0 THEN << >>
    ELSE ReturnedUpTo(k - 1) \o (IF log[k].ret = None THEN << >> ELSE log[k].ret.s)

\* the report of the design: per node, a folder header, a source's block, or nothing
RECURSIVE DesignBodyUpTo(_)
DesignBodyUpTo(k) ==
    IF k = 0 THEN << >>
    ELSE DesignBodyUpTo(k - 1) \o
         (CASE log[k].fault = "folder" -> FolderHeader(nodes[log[k].node].title)
            [] log[k].fault = "parsed" /\ log[k].ret # None -> log[k].ret.s
            [] OTHER -> << >>)

RECURSIVE DesignErrorsUpTo(_)
DesignErrorsUpTo(k) ==
    IF k = 0 THEN ErrorsHeader
    ELSE DesignErrorsUpTo(k - 1) \o
         (IF log[k].fault \in {"raised", "notfound"}
          THEN ErrorAnchor(nodes[log[k].node].xmlUrl, nodes[log[k].node].title)
          ELSE << >>)

RECURSIVE RenderItems(_)
RenderItems(es) ==
    IF es = << >> THEN << >>
    ELSE Li(Head(es).link, Head(es).title) \o RenderItems(Tail(es))

WellFormedFeed(feed) ==
    /\ ~feed.raises
    /\ feed.status # NotFoundStatus
    /\ \A k \in DOMAIN feed.entries :
        /\ feed.entries[k].title # NoAttr
        /\ feed.entries[k].link # NoAttr
        /\ published_date(feed.entries[k]) # PdNone

DatedYesterday(e) == DateOf(published_date(e)) = today - 1

\* a date field that is there and is a valid date/time, structured or raw
FieldValid(v) == v.kind \in {"struct", "str"}

RECURSIVE FirstValidFrom(_, _)
FirstValidFrom(e, k) ==
    IF k > Len(DateKeys) THEN PdNone
    ELSE IF FieldValid(e.dates[DateKeys[k]])
    THEN DateTime(e.dates[DateKeys[k]].day, e.dates[DateKeys[k]].tod)
    ELSE FirstValidFrom(e, k + 1)

-----------------------------------------------------------------------------
(* Properties *)

\* C1: a source whose feed answers 404 is listed (title and URL, as an anchor) in
\* the error section of the report that is mailed, and the body before the error
\* header holds no fragment for it.
C1_NotFoundListedInErrors ==
    \A m \in DOMAIN sent : \A j \in DOMAIN log :
        log[j].fault = "notfound" =>
            LET n == nodes[log[j].node]
            IN  /\ Contains(ErrorSection(sent[m].content), ErrorAnchor(n.xmlUrl, n.title))
                /\ OnlyOneTitled(n) => ~Contains(BodySection(sent[m].content), BlogHeader(n.title))

\* C2: when the fetch of a source raises, get_articles does not raise, the loop goes
\* on, the source's title and URL are recorded in the error list, and what comes
\* back differs from what a parsed feed without articles gives.
C2_FetchExceptionRecorded ==
    \A j \in DOMAIN log :
        log[j].fault = "raised" =>
            LET n == nodes[log[j].node]
            IN  /\ get_articles(FetchRaises, today).exc = NoExc
                /\ Contains(errors, ErrorAnchor(n.xmlUrl, n.title))
                /\ log[j].ret # process_outline(n, Parsed(<< >>), today).ret

\* C3: an entry without title or link, or without a date that parses, never ends
\* the run: no exception leaves get_articles.
C3_EntryDefectNeverInterrupts ==
    ~(pc = "crashed" /\ exc.where = "get_articles")

\* C4: for a parsed feed whose entries all have title, link and a date that
\* published_date parses, get_articles returns the <ul> of exactly the entries
\* dated yesterday, once each and in feed order, and None when there is none.
C4_ExactlyYesterdaysEntries ==
    (pc # "feed" /\ WellFormedFeed(lastFeed)) =>
        LET kept == SelectSeq(lastFeed.entries, DatedYesterday)
        IN  /\ exc = NoExc
            /\ lastRet = IF kept = << >> THEN None
                         ELSE Str(UlOpen \o RenderItems(kept) \o UlClose)

\* C4 witness: a well-formed feed with an entry before, on and after yesterday
C4_Witness ==
    /\ pc = "done"
    /\ WellFormedFeed(lastFeed)
    /\ \E i, j, k \in DOMAIN lastFeed.entries :
        /\ DateOf(published_date(lastFeed.entries[i])) < today - 1
        /\ DatedYesterday(lastFeed.entries[j])
        /\ DateOf(published_date(lastFeed.entries[k])) > today - 1
    /\ lastRet # None

\* C5: published_date returns the first field, in the order of date_keys, that is
\* there and is a valid date/time (a structured time counts), and None only when
\* there is none; a structured "published" wins over a raw "pubDate".
C5_FirstValidFieldWins ==
    pc = "done" => pdResult = FirstValidFrom(entry, 1)

C7_LoadFailureReturnsNone ==
    /\ s3Fault \in {"ClientError", "BotoCoreError"} => loadRet = "None"
    /\ s3Fault \notin {"unset", "none"} => (fetched = << >> /\ sent = << >> /\ pc = "crashed")
    /\ pc \in {"loop", "send", "done"} => loadRet = "tree"

\* C8: a folder node, wherever it is in the document, is not fetched and yields
\* <hr><h1>title</h1>, which goes into the report body; every other node handled
\* is fetched exactly once.
C8_FolderNeverFetched ==
    /\ \A j \in DOMAIN log :
        LET n == nodes[log[j].node]
        IN  IF IsFolder(n)
            THEN log[j].ret = Str(FolderHeader(n.title)) /\ FetchCount(log[j].node) = 0
            ELSE FetchCount(log[j].node) = 1
    /\ \A i \in DOMAIN nodes :
        /\ FetchCount(i) <= 1
        /\ IsFolder(nodes[i]) => FetchCount(i) = 0
        /\ i > Len(log) + 1 => FetchCount(i) = 0
    /\ pc = "loop" => report = ReturnedUpTo(Len(log))
    /\ pc \in {"send", "done"} => Len(log) = Len(nodes)

\* C8 witness: a nested folder handled after a source that was fetched
C8_Witness ==
    /\ pc = "loop"
    /\ \E j \in DOMAIN log :
        /\ IsFolder(nodes[j]) /\ nodes[j].depth = 2
        /\ \E i \in 1..(j - 1) : ~IsFolder(nodes[i]) /\ FetchCount(i) = 1
        /\ Contains(report, FolderHeader(nodes[j].title))

\* C9: the mailed report is the nodes' fragments in traversal order (folder
\* header, source block, nothing for a source without articles), then the error
\* section: the "Errors" header, then one anchor per failed source, in order.
C9_ReportIsBodyThenErrors ==
    \A m \in DOMAIN sent :
        sent[m].content = DesignBodyUpTo(Len(log)) \o DesignErrorsUpTo(Len(log))

\* C10: send_email never raises and always returns a status: 201 when the mail
\* went out, 400 with the exception when a step of the transport failed.
C10_SendEmailAlwaysReturnsStatus ==
    sent # << >> =>
        /\ exc.where # "send_email"
        /\ response.status_code = IF smtpFault = "none" THEN SentStatus ELSE FailedStatus

====
